---------------------------- MODULE Spec2Model ----------------------------
(***************************************************************************)
(* A model of the stringkitjs string utilities (src/unnamed/part_000, and  *)
(* the title of the earlier src/Stringkit.js).                             *)
(*                                                                         *)
(* A JavaScript string is a sequence of UTF-16 code units; a code unit is  *)
(* written here as a one-character TLA+ string, or as "U+XXXX" for a code  *)
(* unit outside ASCII.  A JavaScript value is a record with the same       *)
(* fields for every type, so that values of different types can be         *)
(* compared.  A number is kept as twice its value (num2), which represents *)
(* the integers and the halves (2.5 is num2 = 5); NaN is a flag.           *)
(*                                                                         *)
(* The library functions are operators from argument values to an outcome  *)
(* (a returned value or a thrown error).  The state machine is a caller    *)
(* that calls one function after another.                                  *)
(*                                                                         *)
(* args is the list of arguments as they were when the call began.  heap   *)
(* is the array object the caller passed to commonPrefix, as it is now:    *)
(* an array is passed by reference, and the caller holds it during the     *)
(* call.  exceptionsArray is the array that title bound to its constant    *)
(* exceptions in the call.  remembered is a call the caller has kept with  *)
(* its outcome, to compare a later call of the same function with the same *)
(* arguments against it.                                                   *)
(***************************************************************************)
EXTENDS Integers, Sequences, FiniteSets, TLC

VARIABLES pc, fn, args, outcome, prefix, idx, heap, exceptionsArray,
          remembered

vars ==
  <<pc, fn, args, outcome, prefix, idx, heap, exceptionsArray, remembered>>

---------------------------------------------------------------------------
(* Bounds of the model.                                                    *)

MaxStrLen == 3
MaxNum == 5
CapMaxLen == 4
TruncMaxLen == 4
WordsMaxLen == 5
TitleMaxLen == 5
SlugMaxLen == 4
CaseMaxLen == 5
CPMaxLen == 2
CPMaxArr == 3

---------------------------------------------------------------------------
(* Code units and their classes (the character classes of the regular      *)
(* expressions, and the case mappings of toUpperCase / toLowerCase).       *)

LowerAZ == {"a","b","c","d","e","f","g","h","i","j","k","l","m",
            "n","o","p","q","r","s","t","u","v","w","x","y","z"}

UpperAZ == {"A","B","C","D","E","F","G","H","I","J","K","L","M",
            "N","O","P","Q","R","S","T","U","V","W","X","Y","Z"}

Digits == {"0","1","2","3","4","5","6","7","8","9"}

Whitespace == {" ", "\t", "\n"}

LowerSeq == <<"a","b","c","d","e","f","g","h","i","j","k","l","m",
              "n","o","p","q","r","s","t","u","v","w","x","y","z">>

UpperSeq == <<"A","B","C","D","E","F","G","H","I","J","K","L","M",
              "N","O","P","Q","R","S","T","U","V","W","X","Y","Z">>

IndexIn(c, seq) == CHOOSE k \in 1..Len(seq) : seq[k] = c

\* String.prototype.toUpperCase on one code unit: the result may be longer
\* (U+00DF, the sharp s, becomes "SS"; U+00E9 becomes U+00C9).
UpperOfChar(c) ==
  IF c \in LowerAZ THEN <<UpperSeq[IndexIn(c, LowerSeq)]>>
  ELSE IF c = "U+00DF" THEN <<"S", "S">>
  ELSE IF c = "U+00E9" THEN <<"U+00C9">>
  ELSE IF c = "U+00E0" THEN <<"U+00C0">>
  ELSE <<c>>

\* String.prototype.toLowerCase on one code unit.
LowerOfChar(c) ==
  IF c \in UpperAZ THEN <<LowerSeq[IndexIn(c, UpperSeq)]>>
  ELSE IF c = "U+00C9" THEN <<"U+00E9">>
  ELSE IF c = "U+00C0" THEN <<"U+00E0">>
  ELSE <<c>>

RECURSIVE FlatMap(_, _)
FlatMap(s, up) ==
  IF s = <<>> THEN <<>>
  ELSE (IF up THEN UpperOfChar(Head(s)) ELSE LowerOfChar(Head(s)))
         \o FlatMap(Tail(s), up)

toUpperCase(s) == FlatMap(s, TRUE)

toLowerCase(s) == FlatMap(s, FALSE)

\* string.slice(from) and string.slice(0, to) for integer arguments in range.
SliceFrom(s, from) == SubSeq(s, from + 1, Len(s))

SliceTo(s, to) == SubSeq(s, 1, IF to < Len(s) THEN to ELSE Len(s))

StringsUpTo(alphabet, n) == UNION {[1..k -> alphabet] : k \in 0..n}

---------------------------------------------------------------------------
(* JavaScript values.                                                      *)

Value(t, s, n2, isNaN, bool, elems) ==
  [type |-> t, str |-> s, num2 |-> n2, nan |-> isNaN, b |-> bool, arr |-> elems]

Str(s) == Value("string", s, 0, FALSE, FALSE, <<>>)

Num(n) == Value("number", <<>>, 2 * n, FALSE, FALSE, <<>>)

Half(n2) == Value("number", <<>>, n2, FALSE, FALSE, <<>>)

NaN == Value("number", <<>>, 0, TRUE, FALSE, <<>>)

Bool(b) == Value("boolean", <<>>, 0, FALSE, b, <<>>)

Undefined == Value("undefined", <<>>, 0, FALSE, FALSE, <<>>)

Null == Value("null", <<>>, 0, FALSE, FALSE, <<>>)

Array(elems) == Value("array", <<>>, 0, FALSE, FALSE, elems)

\* The typeof operator.
TypeOf(v) == IF v.type \in {"null", "array"} THEN "object" ELSE v.type

RECURSIVE Concat(_)
Concat(parts) == IF parts = <<>> THEN "" ELSE Head(parts) \o Concat(Tail(parts))

\* The string a template literal `${v}` puts in a message.
ToStringJS(v) ==
  CASE v.type = "string" -> Concat(v.str)
    [] v.type = "number" ->
         IF v.nan THEN "NaN"
         ELSE IF v.num2 % 2 = 0 THEN ToString(v.num2 \div 2)
         ELSE IF v.num2 > 0 THEN ToString(v.num2 \div 2) \o ".5"
         ELSE "-" \o ToString((0 - v.num2) \div 2) \o ".5"
    [] v.type = "boolean" -> IF v.b THEN "true" ELSE "false"
    [] v.type = "null" -> "null"
    [] OTHER -> "undefined"

---------------------------------------------------------------------------
(* Outcomes of a call: a returned value or a thrown error.                 *)

NoError == [name |-> "", text |-> "", param |-> "", got |-> ""]

Return(v) == [kind |-> "return", val |-> v, err |-> NoError]

\* throw new TypeError(message): the message is kept as its template (text),
\* the parameter it names and what it reports.
ThrowTypeError(text, param, got) ==
  [kind |-> "throw", val |-> Undefined,
   err |-> [name |-> "TypeError", text |-> text, param |-> param, got |-> got]]

NoOutcome == [kind |-> "none", val |-> Undefined, err |-> NoError]

Threw(o) == o.kind = "throw"

---------------------------------------------------------------------------
(* The library functions.                                                  *)

assertString(value, name) ==
  IF TypeOf(value) # "string"
  THEN ThrowTypeError("Expected to be a string, but got", name, TypeOf(value))
  ELSE Return(Undefined)

capitalizeRestLowered(string) ==
  LET a == assertString(string, "string") IN
  IF Threw(a) THEN a
  ELSE IF Len(string.str) = 0 THEN Return(string)
  ELSE Return(Str(toUpperCase(<<string.str[1]>>)
                    \o toLowerCase(SliceFrom(string.str, 1))))

capitalize(string) ==
  LET a == assertString(string, "string") IN
  IF Threw(a) THEN a
  ELSE IF Len(string.str) = 0 THEN Return(string)
  ELSE Return(Str(toUpperCase(<<string.str[1]>>) \o SliceFrom(string.str, 1)))

\* string.split(' '): every single space separates two pieces.
RECURSIVE SplitChar(_, _, _, _, _)
SplitChar(s, sep, i, piece, pieces) ==
  IF i > Len(s) THEN Append(pieces, piece)
  ELSE IF s[i] = sep
  THEN SplitChar(s, sep, i + 1, <<>>, Append(pieces, piece))
  ELSE SplitChar(s, sep, i + 1, Append(piece, s[i]), pieces)

\* array.join(sep).
RECURSIVE Join(_, _)
Join(words, sep) ==
  IF words = <<>> THEN <<>>
  ELSE IF Len(words) = 1 THEN words[1]
  ELSE words[1] \o sep \o Join(Tail(words), sep)

exceptions ==
  << <<"a">>, <<"a","n">>, <<"t","h","e">>, <<"a","n","d">>, <<"b","u","t">>,
     <<"f","o","r">>, <<"n","o","r">>, <<"o","r">>, <<"s","o">>, <<"t","o">>,
     <<"u","p">>, <<"y","e","t">>, <<"w","i","t","h">>, <<"a","s">>,
     <<"b","y">>, <<"i","n">>, <<"o","f">>, <<"o","n">>, <<"a","t">>,
     <<"f","r","o","m">> >>

\* exceptions.includes(word)
Includes(list, word) == \E k \in 1..Len(list) : list[k] = word

\* The callback without the test for the last word.
TitleWordLastNotKept(words, index, smart) ==
  IF \/ ~smart
     \/ index = 0
     \/ ~Includes(exceptions, toLowerCase(words[index + 1]))
  THEN capitalize(Str(words[index + 1])).val.str
  ELSE toLowerCase(words[index + 1])

\* The callback of words.map in title.
TitleWord(words, index, smart) ==
  IF \/ ~smart
     \/ index = 0
     \/ index = Len(words) - 1
     \/ ~Includes(exceptions, toLowerCase(words[index + 1]))
  THEN capitalize(Str(words[index + 1])).val.str
  ELSE toLowerCase(words[index + 1])

\* title(string, smart = false): an undefined smart takes the default.
title(string, smartArg) ==
  LET a == assertString(string, "string")
      smart == IF smartArg.type = "undefined" THEN Bool(FALSE) ELSE smartArg
  IN
  IF Threw(a) THEN a
  ELSE IF TypeOf(smart) # "boolean"
  THEN ThrowTypeError("Expected to be a boolean, got", "smart", TypeOf(smart))
  ELSE LET words == SplitChar(string.str, " ", 1, <<>>, <<>>)
           mapped == [k \in 1..Len(words) |-> TitleWord(words, k - 1, smart.b)]
       IN Return(Str(Join(mapped, <<" ">>)))

\* The end of the longest match of /[cls]+/ that starts at position i.
RECURSIVE RunEnd(_, _, _)
RunEnd(s, cls, i) ==
  IF i < Len(s) /\ s[i + 1] \in cls THEN RunEnd(s, cls, i + 1) ELSE i

\* string.replace(/[cls]+/g, rep): every maximal run, from left to right.
RECURSIVE ReplaceRuns(_, _, _, _)
ReplaceRuns(s, cls, replacement, i) ==
  IF i > Len(s) THEN <<>>
  ELSE IF s[i] \in cls
  THEN replacement \o ReplaceRuns(s, cls, replacement, RunEnd(s, cls, i) + 1)
  ELSE <<s[i]>> \o ReplaceRuns(s, cls, replacement, i + 1)

\* string.replace(/[cls]/g, ''): every character of the class removed.
RemoveClass(s, cls) == SelectSeq(s, LAMBDA c : c \notin cls)

\* String.prototype.trim.
RECURSIVE TrimStart(_)
TrimStart(s) ==
  IF s # <<>> /\ Head(s) \in Whitespace THEN TrimStart(Tail(s)) ELSE s

RECURSIVE TrimEnd(_)
TrimEnd(s) ==
  IF s # <<>> /\ s[Len(s)] \in Whitespace
  THEN TrimEnd(SubSeq(s, 1, Len(s) - 1)) ELSE s

trim(s) == TrimEnd(TrimStart(s))

\* The combining diacritical marks, U+0300 to U+036F (those the model has).
CombiningMarks == {"U+0300", "U+0301"}

\* The canonical decomposition of one code unit.
DecomposeChar(c) ==
  IF c = "U+00E9" THEN <<"e", "U+0301">>
  ELSE IF c = "U+00C9" THEN <<"E", "U+0301">>
  ELSE IF c = "U+00E0" THEN <<"a", "U+0300">>
  ELSE IF c = "U+00C0" THEN <<"A", "U+0300">>
  ELSE <<c>>

\* string.normalize('NFD')
RECURSIVE normalizeNFD(_)
normalizeNFD(s) ==
  IF s = <<>> THEN <<>> ELSE DecomposeChar(Head(s)) \o normalizeNFD(Tail(s))

\* The characters /[^a-z0-9\s-]/ does not match.
SlugKept == LowerAZ \cup Digits \cup Whitespace \cup {"-"}

slugifyHyphensKept(string) ==
  LET a == assertString(string, "string") IN
  IF Threw(a) THEN a
  ELSE
    LET lowered == toLowerCase(string.str)
        unmarked == RemoveClass(normalizeNFD(lowered), CombiningMarks)
        kept == SelectSeq(unmarked, LAMBDA c : c \in SlugKept)
    IN Return(Str(ReplaceRuns(trim(kept), Whitespace, <<"-">>, 1)))

\* The two last replacements in the other order: hyphens collapsed before
\* the whitespace runs become hyphens.
slugifyHyphensFirst(string) ==
  LET a == assertString(string, "string") IN
  IF Threw(a) THEN a
  ELSE
    LET lowered == toLowerCase(string.str)
        unmarked == RemoveClass(normalizeNFD(lowered), CombiningMarks)
        kept == SelectSeq(unmarked, LAMBDA c : c \in SlugKept)
        collapsed == ReplaceRuns(trim(kept), {"-"}, <<"-">>, 1)
    IN Return(Str(ReplaceRuns(collapsed, Whitespace, <<"-">>, 1)))

slugify(string) ==
  LET a == assertString(string, "string") IN
  IF Threw(a) THEN a
  ELSE
    LET lowered == toLowerCase(string.str)
        unmarked == RemoveClass(normalizeNFD(lowered), CombiningMarks)
        kept == SelectSeq(unmarked, LAMBDA c : c \in SlugKept)
        hyphened == ReplaceRuns(trim(kept), Whitespace, <<"-">>, 1)
    IN Return(Str(ReplaceRuns(hyphened, {"-"}, <<"-">>, 1)))

\* The first match only, as replace does without the g flag.
SeparateFirstLowerUpper(s, sep, i) ==
  IF \E k \in 1..(Len(s) - 1) : s[k] \in LowerAZ /\ s[k + 1] \in UpperAZ
  THEN LET k == CHOOSE k \in 1..(Len(s) - 1) :
                  /\ s[k] \in LowerAZ /\ s[k + 1] \in UpperAZ
                  /\ \A j \in 1..(k - 1) :
                       ~(s[j] \in LowerAZ /\ s[j + 1] \in UpperAZ)
       IN SubSeq(s, 1, k) \o <<sep>> \o SubSeq(s, k + 1, Len(s))
  ELSE s

\* string.replace(/([a-z])([A-Z])/g, '$1' + sep + '$2'): the matches are
\* taken from left to right and do not overlap.
RECURSIVE SeparateLowerUpper(_, _, _)
SeparateLowerUpper(s, sep, i) ==
  IF i > Len(s) THEN <<>>
  ELSE IF i < Len(s) /\ s[i] \in LowerAZ /\ s[i + 1] \in UpperAZ
  THEN <<s[i], sep, s[i + 1]>> \o SeparateLowerUpper(s, sep, i + 2)
  ELSE <<s[i]>> \o SeparateLowerUpper(s, sep, i + 1)

kebabCase(string) ==
  LET a == assertString(string, "string") IN
  IF Threw(a) THEN a
  ELSE Return(Str(toLowerCase(
         ReplaceRuns(SeparateLowerUpper(string.str, "-", 1),
                     Whitespace \cup {"_"}, <<"-">>, 1))))

snakeCase(string) ==
  LET a == assertString(string, "string") IN
  IF Threw(a) THEN a
  ELSE Return(Str(toLowerCase(
         ReplaceRuns(SeparateLowerUpper(string.str, "_", 1),
                     Whitespace \cup {"-"}, <<"_">>, 1))))

\* string.length > length, for a value that is a number.
LengthGreater(s, length) == ~length.nan /\ 2 * Len(s) > length.num2

\* length < 0; every comparison with NaN is false.
Negative(v) == ~v.nan /\ v.num2 < 0

\* Number.isInteger(v).
IsInteger(v) == v.type = "number" /\ ~v.nan /\ v.num2 % 2 = 0

\* ToIntegerOrInfinity, which slice and repeat apply to their argument: NaN
\* is 0 and a fraction is dropped (truncation toward zero).
ToIntegerOrInfinity(v) ==
  IF v.nan THEN 0
  ELSE IF v.num2 >= 0 THEN v.num2 \div 2
  ELSE 0 - ((0 - v.num2) \div 2)

Ellipsis == <<".", ".", ".">>

truncateGreaterOrEqual(string, length) ==
  LET a == assertString(string, "string") IN
  IF Threw(a) THEN a
  ELSE IF TypeOf(length) # "number" \/ Negative(length)
  THEN ThrowTypeError("Expected to be a non-negative number, got",
                      "length", ToStringJS(length))
  ELSE IF ~length.nan /\ 2 * Len(string.str) >= length.num2
  THEN Return(Str(SliceTo(string.str, ToIntegerOrInfinity(length)) \o Ellipsis))
  ELSE Return(string)

truncate(string, length) ==
  LET a == assertString(string, "string") IN
  IF Threw(a) THEN a
  ELSE IF TypeOf(length) # "number" \/ Negative(length)
  THEN ThrowTypeError("Expected to be a non-negative number, got",
                      "length", ToStringJS(length))
  ELSE IF LengthGreater(string.str, length)
  THEN Return(Str(SliceTo(string.str, ToIntegerOrInfinity(length)) \o Ellipsis))
  ELSE Return(string)

RECURSIVE Repeat(_, _)
Repeat(s, n) == IF n <= 0 THEN <<>> ELSE s \o Repeat(s, n - 1)

repeatString(string, times) ==
  LET a == assertString(string, "string") IN
  IF Threw(a) THEN a
  ELSE IF ~IsInteger(times) \/ Negative(times)
  THEN ThrowTypeError("Expected to be a non-negative integer, got",
                      "times", ToStringJS(times))
  ELSE Return(Str(Repeat(string.str, ToIntegerOrInfinity(times))))

\* string.split(/[cls]+/): the pieces between the matches, from left to
\* right; a string without a match, the empty string too, is one piece.
RECURSIVE SplitScan(_, _, _, _, _)
SplitScan(s, cls, i, piece, pieces) ==
  IF i > Len(s) THEN Append(pieces, piece)
  ELSE IF s[i] \in cls
  THEN SplitScan(s, cls, RunEnd(s, cls, i) + 1, <<>>, Append(pieces, piece))
  ELSE SplitScan(s, cls, i + 1, Append(piece, s[i]), pieces)

SplitRuns(s, cls) == SplitScan(s, cls, 1, <<>>, <<>>)

truncateWords(string, wordCount) ==
  LET a == assertString(string, "string") IN
  IF Threw(a) THEN a
  ELSE IF ~IsInteger(wordCount) \/ Negative(wordCount)
  THEN ThrowTypeError("Expected to be a non-negative integer, got",
                      "wordCount", ToStringJS(wordCount))
  ELSE LET words == SplitRuns(trim(string.str), Whitespace)
           n == ToIntegerOrInfinity(wordCount)
       IN IF Len(words) > n
          THEN Return(Str(Join(SubSeq(words, 1, n), <<" ">>) \o Ellipsis))
          ELSE Return(string)

\* string.startsWith(p), string.endsWith(p), string.includes(p)
startsWith(s, p) == Len(p) <= Len(s) /\ SubSeq(s, 1, Len(p)) = p

endsWith(s, p) == Len(p) <= Len(s) /\ SubSeq(s, Len(s) - Len(p) + 1, Len(s)) = p

includes(s, p) ==
  \E k \in 0..(Len(s) - Len(p)) : SubSeq(s, k + 1, k + Len(p)) = p

startsWithIgnoreCase(string, prefixArg) ==
  LET a1 == assertString(string, "string")
      a2 == assertString(prefixArg, "prefix")
  IN IF Threw(a1) THEN a1
     ELSE IF Threw(a2) THEN a2
     ELSE Return(Bool(startsWith(toLowerCase(string.str),
                                 toLowerCase(prefixArg.str))))

endsWithIgnoreCase(string, suffix) ==
  LET a1 == assertString(string, "string")
      a2 == assertString(suffix, "suffix")
  IN IF Threw(a1) THEN a1
     ELSE IF Threw(a2) THEN a2
     ELSE Return(Bool(endsWith(toLowerCase(string.str),
                               toLowerCase(suffix.str))))

includesIgnoreCase(string, substring) ==
  LET a1 == assertString(string, "string")
      a2 == assertString(substring, "substring")
  IN IF Threw(a1) THEN a1
     ELSE IF Threw(a2) THEN a2
     ELSE Return(Bool(includes(toLowerCase(string.str),
                               toLowerCase(substring.str))))

\* Math.max(0, length - string.length), Math.floor(totalPad / 2) and
\* totalPad - left on numbers kept as twice their value; NaN stays NaN.
PadNeeded(length, s) ==
  IF length.nan THEN NaN
  ELSE Half(IF length.num2 - 2 * Len(s) > 0
            THEN length.num2 - 2 * Len(s) ELSE 0)

FloorOfHalf(v) == IF v.nan THEN NaN ELSE Num(v.num2 \div 4)

Minus(v, w) == IF v.nan \/ w.nan THEN NaN ELSE Half(v.num2 - w.num2)

\* char.repeat(count), for a count that is not negative.
repeat(s, count) == Repeat(s, ToIntegerOrInfinity(count))

\* The checks that center, lpad and rpad share; a char left out is ' '.
PadChar(char) == IF char.type = "undefined" THEN Str(<<" ">>) ELSE char

PadChecks(string, length, char) ==
  LET a1 == assertString(string, "string")
      a2 == assertString(char, "char")
  IN IF Threw(a1) THEN a1
     ELSE IF Threw(a2) THEN a2
     ELSE IF Len(char.str) # 1
     THEN ThrowTypeError("Padding character must be a single character.",
                         "", "")
     ELSE IF TypeOf(length) # "number" \/ Negative(length)
     THEN ThrowTypeError("Length must be a non-negative number.", "", "")
     ELSE Return(Undefined)

centerCharFirst(string, length, charArg) ==
  LET char == PadChar(charArg)
      a1 == assertString(char, "char")
      checks == PadChecks(string, length, char)
  IN IF Threw(a1) THEN a1
     ELSE IF Threw(checks) THEN checks
     ELSE LET totalPad == PadNeeded(length, string.str)
              left == FloorOfHalf(totalPad)
              right == Minus(totalPad, left)
          IN Return(Str(repeat(char.str, left) \o string.str
                          \o repeat(char.str, right)))

center(string, length, charArg) ==
  LET char == PadChar(charArg)
      checks == PadChecks(string, length, char)
  IN IF Threw(checks) THEN checks
     ELSE LET totalPad == PadNeeded(length, string.str)
              left == FloorOfHalf(totalPad)
              right == Minus(totalPad, left)
          IN Return(Str(repeat(char.str, left) \o string.str
                          \o repeat(char.str, right)))

lpad(string, length, charArg) ==
  LET char == PadChar(charArg)
      checks == PadChecks(string, length, char)
  IN IF Threw(checks) THEN checks
     ELSE LET padLength == PadNeeded(length, string.str)
          IN Return(Str(repeat(char.str, padLength) \o string.str))

rpadTruncating(string, length, charArg) ==
  LET char == PadChar(charArg)
      checks == PadChecks(string, length, char)
  IN IF Threw(checks) THEN checks
     ELSE LET padLength == PadNeeded(length, string.str)
          IN Return(Str(SliceTo(string.str \o repeat(char.str, padLength),
                                ToIntegerOrInfinity(length))))

rpad(string, length, charArg) ==
  LET char == PadChar(charArg)
      checks == PadChecks(string, length, char)
  IN IF Threw(checks) THEN checks
     ELSE LET padLength == PadNeeded(length, string.str)
          IN Return(Str(string.str \o repeat(char.str, padLength)))

\* The check at the head of commonPrefix.
IsArrayOfStrings(v) ==
  v.type = "array" /\ \A k \in 1..Len(v.arr) : TypeOf(v.arr[k]) = "string"

\* prefix.slice(0, -1)
DropFirst(s) == SubSeq(s, 2, Len(s))

DropLast(s) == SubSeq(s, 1, Len(s) - 1)

---------------------------------------------------------------------------
(* The earlier file src/Stringkit.js: capitalize and title without the     *)
(* validation of their arguments.                                          *)

\* The conversion of a value to a boolean that the ! operator makes.
ToBoolean(v) ==
  CASE v.type = "boolean" -> v.b
    [] v.type = "number" -> ~v.nan /\ v.num2 # 0
    [] v.type = "string" -> Len(v.str) > 0
    [] v.type = "array" -> TRUE
    [] OTHER -> FALSE

\* The TypeError of the engine for a property read of undefined or null, and
\* for a call of a method the value does not have.
NoSuchMethod(v, method) ==
  IF v.type \in {"undefined", "null"}
  THEN ThrowTypeError("Cannot read properties of", method, v.type)
  ELSE ThrowTypeError("is not a function", method, TypeOf(v))

Stringkit_capitalize(string) ==
  IF string.type \in {"undefined", "null"} THEN NoSuchMethod(string, "length")
  ELSE IF string.type = "array" /\ Len(string.arr) = 0 THEN Return(string)
  ELSE IF string.type # "string" THEN NoSuchMethod(string, "charAt")
  ELSE IF Len(string.str) = 0 THEN Return(string)
  ELSE Return(Str(toUpperCase(<<string.str[1]>>) \o SliceFrom(string.str, 1)))

Stringkit_exceptions ==
  << <<"a">>, <<"a","n">>, <<"t","h","e">>, <<"a","n","d">>, <<"b","u","t">>,
     <<"f","o","r">>, <<"n","o","r">>, <<"o","r">>, <<"s","o">>, <<"t","o">>,
     <<"u","p">>, <<"y","e","t">>, <<"w","i","t","h">>, <<"a","s">>,
     <<"b","y">>, <<"i","n">>, <<"o","f">>, <<"o","n">>, <<"a","t">>,
     <<"f","r","o","m">> >>

\* The callback with the length of the split in the place of the last index.
Stringkit_TitleWordSplitLength(string, word, index, smart) ==
  IF \/ index = 0
     \/ index = Len(SplitChar(string, " ", 1, <<>>, <<>>))
     \/ ~ToBoolean(smart)
     \/ ~Includes(Stringkit_exceptions, toLowerCase(word))
  THEN Stringkit_capitalize(Str(word)).val.str
  ELSE toLowerCase(word)

\* The callback of map in title: string.split(" ") is computed again at
\* every word for the test of the last word.
Stringkit_TitleWord(string, word, index, smart) ==
  IF \/ index = 0
     \/ index = Len(SplitChar(string, " ", 1, <<>>, <<>>)) - 1
     \/ ~ToBoolean(smart)
     \/ ~Includes(Stringkit_exceptions, toLowerCase(word))
  THEN Stringkit_capitalize(Str(word)).val.str
  ELSE toLowerCase(word)

\* title(string, smart = false) of src/Stringkit.js: smart is not checked to
\* be a boolean, and a string that is no string fails at string.split.
Stringkit_title(string, smartArg) ==
  LET smart == IF smartArg.type = "undefined" THEN Bool(FALSE) ELSE smartArg IN
  IF string.type # "string" THEN NoSuchMethod(string, "split")
  ELSE LET words == SplitChar(string.str, " ", 1, <<>>, <<>>)
           mapped == [k \in 1..Len(words) |->
                        Stringkit_TitleWord(string.str, words[k], k - 1, smart)]
       IN Return(Str(Join(mapped, <<" ">>)))

---------------------------------------------------------------------------
(* Inputs of the calls.                                                    *)

NonStrings == {Num(1), Undefined, Null, Bool(TRUE)}

CapAlphabet == {"a", "A", "U+00DF", " "}

CapInputs ==
  {Str(s) : s \in StringsUpTo(CapAlphabet, CapMaxLen)} \cup NonStrings

\* The values given for a numeric parameter: integers from -1, two fractions,
\* NaN, and values that are no number.
NumArgs ==
  {Num(n) : n \in -1..MaxNum}
    \cup {Half(3), Half(-1), NaN, Undefined, Null, Str(<<"1">>)}

TruncInputs ==
  {Str(s) : s \in StringsUpTo({"a", "b"}, TruncMaxLen)} \cup NonStrings

WordsInputs ==
  {Str(s) : s \in StringsUpTo({"a", " ", "\t"}, WordsMaxLen)} \cup NonStrings

\* The examples of the documentation, beside every short string.
TitleExamples ==
  { <<"a"," ","t","a","l","e"," ","o","f"," ","t","w","o"," ",
      "c","i","t","i","e","s">>,
    <<"t","h","e"," ","b","i","g"," ","b","r","o","w","n"," ","f","o","x">>,
    <<"o","n","e"," ","F","R","O","M"," ","a","T"," ","U","p">> }

TitleInputs ==
  {Str(s) : s \in StringsUpTo({"a", "A", " ", "U+00DF"}, TitleMaxLen)
                    \cup TitleExamples}
    \cup NonStrings

SmartArgs == {Bool(TRUE), Bool(FALSE), Undefined, Num(1)}

SlugInputs ==
  {Str(s) : s \in StringsUpTo({"a", "B", "1", " ", "-", "!", "U+00E9"},
                               SlugMaxLen)}
    \cup {Str(<<"C","a","f","U+00E9"," ","d","U+00E9","j","U+00E0"," ",
                "v","u","!">>)}
    \cup NonStrings

CaseInputs ==
  {Str(s) : s \in StringsUpTo({"a", "B", " ", "_", "-"}, CaseMaxLen)}
    \cup {Str(<<"H","e","l","l","o","W","o","r","l","d">>),
          Str(<<"H","e","l","l","o"," ","W","o","r","l","d">>)}
    \cup NonStrings

PredicateInputs ==
  {Str(s) : s \in StringsUpTo({"a", "A"}, MaxStrLen)} \cup NonStrings

PadInputs ==
  {Str(s) : s \in StringsUpTo({"a", "b"}, MaxStrLen)} \cup NonStrings

PadChars ==
  {Str(<<"*">>), Str(<<"b">>), Str(<<>>), Str(<<"*", "*">>), Undefined, Num(1)}

CPStrings == {Str(s) : s \in StringsUpTo({"a", "b"}, CPMaxLen)}

\* Three longer strings that share their first six code units.
CPExample ==
  Array(<< Str(<<"i","n","t","e","r","s","p","e","c","i","e","s">>),
           Str(<<"i","n","t","e","r","s","t","e","l","l","a","r">>),
           Str(<<"i","n","t","e","r","s","t","a","t","e">>) >>)

CPInputs ==
  {Array(a) : a \in StringsUpTo(CPStrings, CPMaxArr)}
    \cup {Array(<<Str(<<"a">>), Num(1)>>), Str(<<"a">>), Undefined}
    \cup {CPExample}

---------------------------------------------------------------------------
(* The caller.                                                             *)

\* No call kept.
NoCall == [fn |-> "", args |-> <<>>, outcome |-> NoOutcome]

Init ==
  /\ pc = "idle"
  /\ fn = ""
  /\ args = <<>>
  /\ outcome = NoOutcome
  /\ prefix = <<>>
  /\ idx = 0
  /\ heap = Undefined
  /\ exceptionsArray = <<>>
  /\ remembered = NoCall

\* A call that runs to its end in one step has this outcome.
Returned(name, arguments, result) ==
  /\ pc' = "done"
  /\ fn' = name
  /\ args' = arguments
  /\ outcome' = result

\* The effect of a call that runs to its end in one step and whose
\* arguments and local values are strings, numbers and booleans.
Call(name, arguments, result) ==
  /\ Returned(name, arguments, result)
  /\ UNCHANGED <<prefix, idx, heap, exceptionsArray, remembered>>

CallCapitalize ==
  /\ pc = "idle"
  /\ \E string \in CapInputs :
       Call("capitalize", <<string>>, capitalize(string))

\* title makes the array of its constant exceptions after the validation
\* of its arguments.
CallTitle ==
  /\ pc = "idle"
  /\ \E string \in TitleInputs, smart \in SmartArgs :
       /\ Returned("title", <<string, smart>>, title(string, smart))
       /\ exceptionsArray' =
            IF Threw(title(string, smart)) THEN exceptionsArray ELSE exceptions
       /\ UNCHANGED <<prefix, idx, heap, remembered>>

\* A call of the title of src/Stringkit.js, which makes the array first.
CallStringkitTitle ==
  /\ pc = "idle"
  /\ \E string \in TitleInputs, smart \in SmartArgs :
       /\ Returned("Stringkit.title", <<string, smart>>,
                   Stringkit_title(string, smart))
       /\ exceptionsArray' = Stringkit_exceptions
       /\ UNCHANGED <<prefix, idx, heap, remembered>>

CallSlugify ==
  /\ pc = "idle"
  /\ \E string \in SlugInputs :
       Call("slugify", <<string>>, slugify(string))

CallKebabCase ==
  /\ pc = "idle"
  /\ \E string \in CaseInputs :
       Call("kebabCase", <<string>>, kebabCase(string))

CallSnakeCase ==
  /\ pc = "idle"
  /\ \E string \in CaseInputs :
       Call("snakeCase", <<string>>, snakeCase(string))

CallTruncate ==
  /\ pc = "idle"
  /\ \E string \in TruncInputs, length \in NumArgs :
       Call("truncate", <<string, length>>, truncate(string, length))

CallRepeatString ==
  /\ pc = "idle"
  /\ \E string \in TruncInputs, times \in NumArgs :
       Call("repeatString", <<string, times>>, repeatString(string, times))

CallTruncateWords ==
  /\ pc = "idle"
  /\ \E string \in WordsInputs, wordCount \in NumArgs :
       Call("truncateWords", <<string, wordCount>>,
            truncateWords(string, wordCount))

CallStartsWithIgnoreCase ==
  /\ pc = "idle"
  /\ \E string \in PredicateInputs, p \in PredicateInputs :
       Call("startsWithIgnoreCase", <<string, p>>,
            startsWithIgnoreCase(string, p))

CallEndsWithIgnoreCase ==
  /\ pc = "idle"
  /\ \E string \in PredicateInputs, suffix \in PredicateInputs :
       Call("endsWithIgnoreCase", <<string, suffix>>,
            endsWithIgnoreCase(string, suffix))

CallIncludesIgnoreCase ==
  /\ pc = "idle"
  /\ \E string \in PredicateInputs, substring \in PredicateInputs :
       Call("includesIgnoreCase", <<string, substring>>,
            includesIgnoreCase(string, substring))

CallCenter ==
  /\ pc = "idle"
  /\ \E string \in PadInputs, length \in NumArgs, char \in PadChars :
       Call("center", <<string, length, char>>, center(string, length, char))

CallLpad ==
  /\ pc = "idle"
  /\ \E string \in PadInputs, length \in NumArgs, char \in PadChars :
       Call("lpad", <<string, length, char>>, lpad(string, length, char))

CallRpad ==
  /\ pc = "idle"
  /\ \E string \in PadInputs, length \in NumArgs, char \in PadChars :
       Call("rpad", <<string, length, char>>, rpad(string, length, char))

\* commonPrefix up to its loop: the check of the argument, the empty array,
\* and the first element taken as the prefix.
CallCommonPrefix ==
  /\ pc = "idle"
  /\ \E strings \in CPInputs :
       /\ fn' = "commonPrefix"
       /\ args' = <<strings>>
       /\ heap' = strings
       /\ UNCHANGED <<exceptionsArray, remembered>>
       /\ IF ~IsArrayOfStrings(strings)
          THEN /\ outcome' =
                    ThrowTypeError("Expected an array of strings", "", "")
               /\ pc' = "done"
               /\ UNCHANGED <<prefix, idx>>
          ELSE IF Len(strings.arr) = 0
          THEN /\ outcome' = Return(Str(<<>>))
               /\ pc' = "done"
               /\ UNCHANGED <<prefix, idx>>
          ELSE /\ outcome' = NoOutcome
               /\ pc' = "loop"
               /\ prefix' = strings.arr[1].str
               /\ idx' = 1

\* The loop written as while (strings.length) with strings.shift(): an
\* element that was compared is taken out of the array.
CommonPrefixStepShift ==
  /\ pc = "loop"
  /\ UNCHANGED <<fn, args, exceptionsArray, remembered>>
  /\ IF Len(heap.arr) = 0
     THEN /\ outcome' = Return(Str(prefix))
          /\ pc' = "done"
          /\ UNCHANGED <<prefix, idx, heap>>
     ELSE IF ~startsWith(heap.arr[1].str, prefix)
     THEN /\ prefix' = DropLast(prefix)
          /\ UNCHANGED <<idx, heap>>
          /\ IF prefix' = <<>>
             THEN outcome' = Return(Str(<<>>)) /\ pc' = "done"
             ELSE UNCHANGED <<outcome, pc>>
     ELSE /\ heap' = Array(Tail(heap.arr))
          /\ UNCHANGED <<prefix, idx, outcome, pc>>

\* One test of the while condition of commonPrefix for the element at idx
\* (with the body of the while loop when the test holds), or the end of the
\* for loop when no element is left.  The elements are read from the array
\* as it is at the time of the step.
CommonPrefixStep ==
  /\ pc = "loop"
  /\ UNCHANGED <<fn, args, heap, exceptionsArray, remembered>>
  /\ IF idx > Len(heap.arr)
     THEN /\ outcome' = Return(Str(prefix))
          /\ pc' = "done"
          /\ UNCHANGED <<prefix, idx>>
     ELSE IF ~startsWith(heap.arr[idx].str, prefix)
     THEN /\ prefix' = DropLast(prefix)
          /\ UNCHANGED idx
          /\ IF prefix' = <<>>
             THEN outcome' = Return(Str(<<>>)) /\ pc' = "done"
             ELSE UNCHANGED <<outcome, pc>>
     ELSE /\ idx' = idx + 1
          /\ UNCHANGED <<prefix, outcome, pc>>

\* The end of a call: its local values are gone and the caller lets go of
\* the array it passed.
Forgotten ==
  /\ pc' = "idle"
  /\ fn' = ""
  /\ args' = <<>>
  /\ outcome' = NoOutcome
  /\ prefix' = <<>>
  /\ idx' = 0
  /\ heap' = Undefined
  /\ exceptionsArray' = <<>>

\* The caller takes the outcome; nothing of the call is kept.
Finish ==
  /\ pc = "done"
  /\ Forgotten
  /\ UNCHANGED remembered

\* The calls the caller keeps for a later comparison: title in smart mode
\* for its examples, and commonPrefix for its longer example.
Kept ==
  \/ /\ fn = "title"
     /\ args[1] \in {Str(s) : s \in TitleExamples}
     /\ args[2] = Bool(TRUE)
  \/ /\ fn = "commonPrefix"
     /\ args[1] = CPExample

\* The caller keeps the call and its outcome, in the place of the call it
\* kept before.
FinishKeeping ==
  /\ pc = "done"
  /\ Kept
  /\ remembered' = [fn |-> fn, args |-> args, outcome |-> outcome]
  /\ Forgotten

Next ==
  \/ CallCapitalize
  \/ CallTitle
  \/ CallStringkitTitle
  \/ CallSlugify
  \/ CallKebabCase
  \/ CallSnakeCase
  \/ CallTruncate
  \/ CallRepeatString
  \/ CallTruncateWords
  \/ CallStartsWithIgnoreCase
  \/ CallEndsWithIgnoreCase
  \/ CallIncludesIgnoreCase
  \/ CallCenter
  \/ CallLpad
  \/ CallRpad
  \/ CallCommonPrefix
  \/ CommonPrefixStep
  \/ Finish

Spec == Init /\ [][Next]_vars

\* The calls of commonPrefix alone.  A call that was started goes on: the
\* code is synchronous and nothing suspends it.
NextCommonPrefix ==
  \/ CallCommonPrefix
  \/ CommonPrefixStep
  \/ Finish

SpecCommonPrefix ==
  Init /\ [][NextCommonPrefix]_vars /\ WF_vars(CommonPrefixStep)

\* The calls in any order, by a caller that keeps one of them to compare a
\* later call with it.
NextKeeping ==
  \/ Next
  \/ FinishKeeping

SpecKeeping == Init /\ [][NextKeeping]_vars

---------------------------------------------------------------------------
Done(name) == pc = "done" /\ fn = name

\* A non-negative integer.
IsCount(v) == IsInteger(v) /\ v.num2 >= 0

TwoStringFunctions ==
  {"startsWithIgnoreCase", "endsWithIgnoreCase", "includesIgnoreCase"}

PadFunctions == {"center", "lpad", "rpad"}

(* C1: startsWithIgnoreCase, endsWithIgnoreCase, includesIgnoreCase,       *)
(* center, lpad and rpad check their first argument before anything else:  *)
(* when it is not a string, the call throws the error of assertString that *)
(* names the parameter "string", whatever the later arguments are, and     *)
(* returns nothing.                                                        *)
C1_FirstArgumentFirst ==
  (/\ pc = "done"
   /\ fn \in TwoStringFunctions \cup PadFunctions
   /\ TypeOf(args[1]) # "string") =>
    /\ outcome.kind = "throw"
    /\ outcome.val = Undefined
    /\ outcome.err.name = "TypeError"
    /\ outcome.err.text = "Expected to be a string, but got"
    /\ outcome.err.param = "string"
    /\ outcome.err.got = TypeOf(args[1])

\* center with no valid argument at all: the error is about the first.
C1_Witness ==
  /\ Done("center")
  /\ args = <<Num(1), Str(<<"1">>), Num(1)>>
  /\ outcome.kind = "throw"
  /\ outcome.err.param = "string"
  /\ outcome.err.got = "number"

(* C2: for the numeric parameter of truncate, repeatString and             *)
(* truncateWords, a value that is no number fails with the error kind of   *)
(* an invalid type (the TypeError that assertString throws), and a number  *)
(* that is negative (or, for times and wordCount, not an integer) fails    *)
(* with another error kind, so that the caller can tell the two apart.     *)
C2_DistinctErrorKinds ==
  (/\ pc = "done"
   /\ fn \in {"truncate", "repeatString", "truncateWords"}
   /\ TypeOf(args[1]) = "string") =>
    /\ TypeOf(args[2]) # "number" =>
         Threw(outcome) /\ outcome.err.name = "TypeError"
    /\ (/\ TypeOf(args[2]) = "number"
        /\ \/ Negative(args[2])
           \/ fn # "truncate" /\ ~IsInteger(args[2])) =>
         Threw(outcome) /\ outcome.err.name # "TypeError"

(* C3: for a string s and a non-negative integer n, truncate(s, n) is s    *)
(* when s has at most n characters, and otherwise the first n characters   *)
(* of s followed by "...", of length n + 3.                                *)
C3_Truncate ==
  (Done("truncate") /\ TypeOf(args[1]) = "string" /\ IsCount(args[2])) =>
    LET s == args[1].str
        n == args[2].num2 \div 2
    IN /\ outcome.kind = "return"
       /\ outcome.val.type = "string"
       /\ Len(s) <= n => outcome.val.str = s
       /\ Len(s) > n =>
            /\ Len(outcome.val.str) = n + 3
            /\ \A k \in 1..n : outcome.val.str[k] = s[k]
            /\ \A k \in (n + 1)..(n + 3) : outcome.val.str[k] = "."

\* A truncation to no character at all, and one of a string one longer than
\* the limit.
C3_Witness ==
  /\ Done("truncate")
  /\ \/ args = <<Str(<<"a", "b">>), Num(0)>> /\ outcome = Return(Str(Ellipsis))
     \/ /\ args = <<Str(<<"a", "b", "a">>), Num(2)>>
        /\ outcome = Return(Str(<<"a", "b", ".", ".", ".">>))

\* The words of a string: its maximal runs of characters that are no
\* whitespace, from left to right.
WordStarts(s) ==
  {i \in 1..Len(s) :
     s[i] \notin Whitespace /\ (i = 1 \/ s[i - 1] \in Whitespace)}

WordEnd(s, i) ==
  CHOOSE j \in i..Len(s) :
    /\ \A k \in i..j : s[k] \notin Whitespace
    /\ j = Len(s) \/ s[j + 1] \in Whitespace

NthWordStart(s, n) ==
  CHOOSE i \in WordStarts(s) :
    Cardinality({j \in WordStarts(s) : j < i}) = n - 1

WordList(s) ==
  [n \in 1..Cardinality(WordStarts(s)) |->
     SubSeq(s, NthWordStart(s, n), WordEnd(s, NthWordStart(s, n)))]

(* C4: for a string s and a non-negative integer n, truncateWords(s, n) is *)
(* s itself when s has at most n words (an empty or all-whitespace s has   *)
(* none, also for n = 0), and otherwise the first n words joined by single *)
(* spaces and followed by "...".                                           *)
C4_TruncateWords ==
  (Done("truncateWords") /\ TypeOf(args[1]) = "string" /\ IsCount(args[2])) =>
    LET s == args[1].str
        n == args[2].num2 \div 2
        words == WordList(s)
    IN IF Len(words) <= n
       THEN outcome = Return(args[1])
       ELSE outcome =
              Return(Str(Join(SubSeq(words, 1, n), <<" ">>) \o Ellipsis))

\* The positions of the space characters of a string, the k-th of them (0
\* before the string, Len + 1 after the last), and the k-th word: what lies
\* between the (k-1)-th and the k-th space.
SpacePositions(s) == {i \in 1..Len(s) : s[i] = " "}

NthSpace(s, k) ==
  IF k = 0 THEN 0
  ELSE IF k > Cardinality(SpacePositions(s)) THEN Len(s) + 1
  ELSE CHOOSE i \in SpacePositions(s) :
         Cardinality({j \in SpacePositions(s) : j < i}) = k - 1

Segment(s, k) == SubSeq(s, NthSpace(s, k - 1) + 1, NthSpace(s, k) - 1)

\* A word with its first character uppercased and the rest untouched.
Capitalized(w) == IF w = <<>> THEN <<>> ELSE UpperOfChar(w[1]) \o Tail(w)

StopWords == {exceptions[k] : k \in 1..Len(exceptions)}

\* The result r has the words of s, each lowercased when smart is set and
\* the word is neither the first nor the last and a stop word, and
\* capitalized otherwise.
TitleWordsAsClaimed(s, r, smart) ==
  LET n == Cardinality(SpacePositions(s)) IN
  /\ Cardinality(StopWords) = 20
  /\ Cardinality(SpacePositions(r)) = n
  /\ \A k \in 1..(n + 1) :
       LET w == Segment(s, k) IN
       Segment(r, k) =
         IF smart /\ k # 1 /\ k # n + 1 /\ toLowerCase(w) \in StopWords
         THEN toLowerCase(w)
         ELSE Capitalized(w)

TitleCall ==
  Done("title") /\ TypeOf(args[1]) = "string" /\ TypeOf(args[2]) = "boolean"

(* C5, as claimed: title(s, true) lowercases a word iff it is not the      *)
(* first word, not the last word and its lowercase form is one of the 20   *)
(* stop words, and capitalizes every other word; title(s, false)           *)
(* capitalizes every word; the number and the positions of the spaces are  *)
(* those of s.                                                             *)
C5_TitleSpacesInPlace ==
  TitleCall =>
    /\ outcome.kind = "return"
    /\ TitleWordsAsClaimed(args[1].str, outcome.val.str, args[2].b)
    /\ SpacePositions(outcome.val.str) = SpacePositions(args[1].str)

(* C5, amended: the words are as claimed and the number of spaces is that  *)
(* of s; the positions of the spaces are those of s when no word changes   *)
(* its length (uppercasing U+00DF gives the two characters "SS").          *)
C5_Title ==
  TitleCall =>
    LET s == args[1].str
        r == outcome.val.str
    IN /\ outcome.kind = "return"
       /\ TitleWordsAsClaimed(s, r, args[2].b)
       /\ (\A k \in 1..(Cardinality(SpacePositions(s)) + 1) :
              Len(Segment(r, k)) = Len(Segment(s, k)))
            => SpacePositions(r) = SpacePositions(s)

\* The example of the documentation: the first and the last word are
\* capitalized, the stop word between them is lowercased.
C5_Witness ==
  /\ Done("title")
  /\ args = <<Str(<<"o","n","e"," ","F","R","O","M"," ","a","T"," ","U","p">>),
              Bool(TRUE)>>
  /\ outcome = Return(Str(<<"O","n","e"," ","f","r","o","m"," ","a","t"," ",
                            "U","p">>))

\* The base letter or digit a character of the input leaves in the slug.
SlugBase(c) ==
  IF c \in LowerAZ \cup Digits THEN <<c>>
  ELSE IF c \in UpperAZ THEN LowerOfChar(c)
  ELSE IF c \in {"U+00E9", "U+00C9"} THEN <<"e">>
  ELSE IF c \in {"U+00E0", "U+00C0"} THEN <<"a">>
  ELSE <<>>

RECURSIVE SlugBases(_)
SlugBases(s) ==
  IF s = <<>> THEN <<>> ELSE SlugBase(Head(s)) \o SlugBases(Tail(s))

(* C6: the result of slugify holds only lowercase ASCII letters, digits    *)
(* and hyphens, no whitespace and no two hyphens in a row; its letters and *)
(* digits are those of the input, lowercased, an accented letter folded to *)
(* its base letter.                                                        *)
C6_SlugifyIsSlug ==
  (Done("slugify") /\ TypeOf(args[1]) = "string") =>
    LET r == outcome.val.str IN
    /\ outcome.kind = "return"
    /\ \A k \in 1..Len(r) : r[k] \in LowerAZ \cup Digits \cup {"-"}
    /\ \A k \in 1..Len(r) : r[k] \notin Whitespace
    /\ \A k \in 1..(Len(r) - 1) : ~(r[k] = "-" /\ r[k + 1] = "-")
    /\ SelectSeq(r, LAMBDA c : c # "-") = SlugBases(args[1].str)

\* An accented letter folded, and a space beside a hyphen of the input.
C6_Witness ==
  /\ Done("slugify")
  /\ args[1] = Str(<<"U+00E9", " ", "-", "a">>)
  /\ outcome = Return(Str(<<"e", "-", "a">>))

IsPrefixOf(p, e) == \E k \in 0..Len(e) : SubSeq(e, 1, k) = p

\* The longest string that is a prefix of every string of a set; the empty
\* string for the empty set.  It depends on the set alone, not on an order
\* of its elements.
CommonPrefixes(S) ==
  {p \in UNION {{SubSeq(e, 1, k) : k \in 0..Len(e)} : e \in S} :
     \A e \in S : IsPrefixOf(p, e)}

LongestCommonPrefix(S) ==
  IF S = {} THEN <<>>
  ELSE CHOOSE p \in CommonPrefixes(S) :
         \A q \in CommonPrefixes(S) : Len(q) <= Len(p)

Elements(array) == {array.arr[k].str : k \in 1..Len(array.arr)}

\* The result of a finished call of commonPrefix on an array of strings is
\* the longest common prefix of the set of its elements.
CommonPrefixResult ==
  (Done("commonPrefix") /\ IsArrayOfStrings(args[1])) =>
    outcome = Return(Str(LongestCommonPrefix(Elements(args[1]))))

(* C7: a call of commonPrefix on an array of strings ends, and returns the *)
(* longest string that is a prefix of every element (the empty string for  *)
(* the empty array or when the elements share no prefix); the result is    *)
(* that of every permutation of the array, which has the same elements.    *)
C7_CommonPrefix ==
  /\ []CommonPrefixResult
  /\ (pc = "loop") ~> (pc = "done")

\* The prefix was shortened for the second element and the loop has ended.
C7_Witness ==
  /\ Done("commonPrefix")
  /\ args[1] = Array(<<Str(<<"a", "b">>), Str(<<"a", "a">>)>>)
  /\ outcome = Return(Str(<<"a">>))

\* The padding asked for: target length n, string s.
Padding(n, s) == IF n > Len(s) THEN n - Len(s) ELSE 0

(* C8: for a string s, a non-negative integer n and a pad c of one         *)
(* character, center, lpad and rpad return s with p = max(0, n - length of *)
(* s) characters c added, never a shorter string: floor(p / 2) of them     *)
(* before s and the others after it for center, all before s for lpad and  *)
(* all after s for rpad.                                                   *)
C8_Padding ==
  (/\ pc = "done"
   /\ fn \in PadFunctions
   /\ TypeOf(args[1]) = "string"
   /\ IsCount(args[2])
   /\ TypeOf(args[3]) = "string"
   /\ Len(args[3].str) = 1) =>
    LET s == args[1].str
        n == args[2].num2 \div 2
        c == args[3].str[1]
        p == Padding(n, s)
        left == CASE fn = "center" -> p \div 2
                  [] fn = "lpad" -> p
                  [] OTHER -> 0
        r == outcome.val.str
    IN /\ outcome.kind = "return"
       /\ outcome.val.type = "string"
       /\ Len(r) = (IF Len(s) > n THEN Len(s) ELSE n)
       /\ SubSeq(r, left + 1, left + Len(s)) = s
       /\ \A k \in 1..left : r[k] = c
       /\ \A k \in (left + Len(s) + 1)..Len(r) : r[k] = c

\* An odd padding: one character before the string and two after it.
C8_Witness ==
  /\ Done("center")
  /\ args = <<Str(<<"a">>), Num(4), Str(<<"*">>)>>
  /\ outcome = Return(Str(<<"*", "a", "*", "*">>))

\* What position i of the input contributes to the result of kebabCase
\* (sep "-", joined "_") or snakeCase (sep "_", joined "-"): the first
\* character of a run of whitespace or joined characters gives one sep, the
\* others nothing; any other character gives its lowercase, followed by sep
\* when it is a lowercase letter before an uppercase letter.
CasePiece(s, i, sep, joined) ==
  IF s[i] \in Whitespace \cup {joined}
  THEN IF i = 1 \/ s[i - 1] \notin Whitespace \cup {joined}
       THEN <<sep>> ELSE <<>>
  ELSE LowerOfChar(s[i]) \o
         (IF i < Len(s) /\ s[i] \in LowerAZ /\ s[i + 1] \in UpperAZ
          THEN <<sep>> ELSE <<>>)

RECURSIVE CasePieces(_, _, _, _)
CasePieces(s, i, sep, joined) ==
  IF i > Len(s) THEN <<>>
  ELSE CasePiece(s, i, sep, joined) \o CasePieces(s, i + 1, sep, joined)

(* C9: kebabCase puts a hyphen between every lowercase ASCII letter and    *)
(* the uppercase ASCII letter that follows it, replaces every maximal run  *)
(* of whitespace or underscores by one hyphen and lowercases; the result   *)
(* has no uppercase ASCII letter, no whitespace and no underscore.         *)
(* snakeCase does the same with the underscore and runs of whitespace or   *)
(* hyphens; its result has no uppercase letter, whitespace or hyphen.      *)
C9_KebabSnake ==
  (/\ pc = "done"
   /\ fn \in {"kebabCase", "snakeCase"}
   /\ TypeOf(args[1]) = "string") =>
    LET r == outcome.val.str
        sep == IF fn = "kebabCase" THEN "-" ELSE "_"
        joined == IF fn = "kebabCase" THEN "_" ELSE "-"
    IN /\ outcome.kind = "return"
       /\ r = CasePieces(args[1].str, 1, sep, joined)
       /\ \A k \in 1..Len(r) : r[k] \notin UpperAZ \cup Whitespace \cup {joined}

\* Two lower-upper boundaries and a run of a space and an underscore.
C9_Witness ==
  /\ Done("kebabCase")
  /\ args[1] = Str(<<"a", "B", " ", "_">>)
  /\ outcome = Return(Str(<<"a", "-", "b", "-">>))

(* C10: capitalize is idempotent, returns the empty string unchanged and,  *)
(* for a non-empty string, changes only the first character (to its upper  *)
(* case) and leaves the remainder as it is.                                *)
C10_CapitalizeIdempotent ==
  (fn = "capitalize" /\ pc = "done" /\ TypeOf(args[1]) = "string") =>
    /\ outcome.kind = "return"
    /\ capitalize(outcome.val) = outcome
    /\ Len(args[1].str) = 0 => outcome.val = args[1]
    /\ Len(args[1].str) > 0 =>
         LET r == outcome.val.str
             k == Len(r) - (Len(args[1].str) - 1)
         IN /\ k >= 1
            /\ SubSeq(r, 1, k) = UpperOfChar(args[1].str[1])
            /\ SubSeq(r, k + 1, Len(r)) = Tail(args[1].str)

\* A string whose first code unit grows when uppercased and whose remainder
\* holds an uppercase and a lowercase letter.
C10_Witness ==
  /\ fn = "capitalize" /\ pc = "done"
  /\ args[1] = Str(<<"U+00DF", "A", "a">>)
  /\ outcome = Return(Str(<<"S", "S", "A", "a">>))

C12_TitleSameResult ==
  (/\ pc = "done"
   /\ fn \in {"title", "Stringkit.title"}
   /\ TypeOf(args[1]) = "string"
   /\ TypeOf(args[2]) = "boolean") =>
    /\ outcome.kind = "return"
    /\ fn = "title" => outcome = Stringkit_title(args[1], args[2])
    /\ fn = "Stringkit.title" => outcome = title(args[1], args[2])

\* Smart mode with a stop word in first, inner and last place: the test for
\* the last word decides the third word.
C12_Witness ==
  /\ Done("Stringkit.title")
  /\ args = <<Str(<<"a", " ", "a", " ", "a">>), Bool(TRUE)>>
  /\ outcome = Return(Str(<<"A", " ", "a", " ", "A">>))

(* C13: slugify is idempotent: the slug of a slug is that slug, also when  *)
(* the slug begins or ends with a hyphen that came from the input.         *)
C13_SlugifyIdempotent ==
  (Done("slugify") /\ TypeOf(args[1]) = "string") =>
    /\ outcome.kind = "return"
    /\ slugify(outcome.val) = outcome

\* A slug that keeps a leading and a trailing hyphen of the input, the
\* leading one next to a space the trim leaves in place.
C13_Witness ==
  /\ Done("slugify")
  /\ args[1] = Str(<<"-", " ", "a", "-">>)
  /\ outcome = Return(Str(<<"-", "a", "-">>))
  /\ slugify(outcome.val).val.str = <<"-", "a", "-">>

===========================================================================
